---- MODULE Spec2Model ----
(***************************************************************************)
(* Model of src/blockchain/compact_filters/peer.rs: the shared Mempool,    *)
(* the Peer endpoint (from_stream handshake, send, recv, the reader        *)
(* worker) and the CompactFiltersPeer / InvPeer helpers built on them.     *)
(*                                                                         *)
(* Threads: "main" runs Peer::from_stream and then, once the Peer exists,  *)
(* a sequence of public calls; "reader" is the thread spawned at line 159. *)
(* The remote peer writes frames into the socket (inbound) and may close   *)
(* it.  Other owners of the shared Mempool call Mempool::add_tx.           *)
(***************************************************************************)
EXTENDS Integers, Sequences, FiniteSets, TLC

\* ------------------------------------------------------------------ bounds
\* Version / Verack frames the remote peer writes on one connection.
MaxHandshake == 2
\* Other frames the remote peer writes on one connection.
MaxInbound == 2
\* Frames the socket buffers between the remote's write and read_next.
MaxPipe == 1
\* add_tx calls made by the other owners of the shared Mempool.
MaxAdds == 1
\* Public calls the owner of the Peer makes after from_stream returned Ok.
MaxCalls == 1
\* get_cf_checkpt / get_cf_headers calls made in a row on a connected Peer.
MaxCfCalls == 2

\* ------------------------------------------------------------- data model
\* Transaction bodies (opaque payloads).
Txs == {1, 2}

\* Transaction::txid(): the hash of the body.  Distinct bodies of the model
\* have distinct hashes (the hash is content-addressed, spec section 3).
Txid(tx) == 10 + tx

\* 32-byte hash values that occur in inventories.
Hashes == {Txid(tx) : tx \in Txs}

\* Inventory variants (bitcoin::network::message_blockdata::Inventory).
InvError == [ty |-> "Error", h |-> 0]
InvBlock(h) == [ty |-> "Block", h |-> h]
InvWitnessBlock(h) == [ty |-> "WitnessBlock", h |-> h]
InvTransaction(h) == [ty |-> "Transaction", h |-> h]
InvWitnessTransaction(h) == [ty |-> "WitnessTransaction", h |-> h]

\* NetworkMessage: a variant name, a scalar field (nonce, version id,
\* filter_type, transaction body, ...) and an inventory list.
Msg(kind, n, inv) == [kind |-> kind, n |-> n, inv |-> inv]

\* The compact-filter messages (GetCFCheckpt, GetCFHeaders, GetCFilters and
\* CFCheckpt, CFHeaders): their filter_type and their stop_hash.
CfMsg(kind, ft, stop) == [kind |-> kind, n |-> ft, inv |-> <<>>, stop |-> stop]

\* Option::None for an Option<NetworkMessage>.
NoMsg == Msg("None", 0, <<>>)

\* NetworkMessage::cmd(): the command name a variant is routed under.
Cmd(m) ==
    CASE m.kind = "Version" -> "version"
      [] m.kind = "Verack" -> "verack"
      [] m.kind = "Ping" -> "ping"
      [] m.kind = "Pong" -> "pong"
      [] m.kind = "Alert" -> "alert"
      [] m.kind = "Inv" -> "inv"
      [] m.kind = "GetData" -> "getdata"
      [] m.kind = "NotFound" -> "notfound"
      [] m.kind = "Tx" -> "tx"
      [] m.kind = "Block" -> "block"
      [] m.kind = "MemPool" -> "mempool"
      [] m.kind = "GetCFCheckpt" -> "getcfcheckpt"
      [] m.kind = "CFCheckpt" -> "cfcheckpt"
      [] m.kind = "GetCFHeaders" -> "getcfheaders"
      [] m.kind = "CFHeaders" -> "cfheaders"
      [] m.kind = "GetCFilters" -> "getcfilters"
      [] m.kind = "CFilter" -> "cfilter"
      [] OTHER -> "unknown"

\* Network::magic() of the Peer's network, and the magic of another network.
OurMagic == 1
OtherMagic == 2

\* RawNetworkMessage as it arrives; ok = FALSE is a frame read_next cannot
\* decode (bad checksum, bad length).
Raw(magic, payload) == [magic |-> magic, ok |-> TRUE, payload |-> payload]
Corrupt == [magic |-> OurMagic, ok |-> FALSE, payload |-> NoMsg]

\* Inventory lists the remote uses in Inv and GetData.
InvLists ==
    { <<InvWitnessTransaction(Txid(2)), InvBlock(Txid(1)), InvError,
        InvTransaction(Txid(1)), InvWitnessBlock(Txid(2))>>,
      <<InvTransaction(Txid(2)), InvTransaction(Txid(1))>> }

\* Payloads the remote peer sends under our magic.
RemotePayloads ==
    {Msg("Version", v, <<>>) : v \in {1, 2}}
    \cup {Msg("Verack", 0, <<>>), Msg("Alert", 0, <<>>), Msg("Block", 1, <<>>)}
    \cup {Msg("Ping", n, <<>>) : n \in {1}}
    \cup {Msg("GetData", 0, l) : l \in InvLists}
    \cup {Msg("Inv", 0, l) : l \in InvLists}
    \cup {Msg("Tx", tx, <<>>) : tx \in Txs}
    \cup {CfMsg("CFCheckpt", ft, 1) : ft \in {1}}
    \cup {CfMsg("CFHeaders", ft, 1) : ft \in {1}}
    \cup {Msg("CFilter", k, <<>>) : k \in {1, 2}}

\* Frames the remote peer can put on the socket.
RemoteFrames ==
    {Raw(OurMagic, p) : p \in RemotePayloads}
    \cup {Raw(OtherMagic, Msg("Ping", 1, <<>>)),
          Raw(OtherMagic, Msg("GetData", 0, <<InvTransaction(Txid(1))>>)),
          Corrupt}

\* ------------------------------------------------------------------ state
VARIABLES
    inbound,    \* frames written by the remote and not yet read by read_next
    sock,       \* the TCP connection: "open" | "closed" (by the peer) | "broken"
                \* (a write on it has failed)
    nsent,      \* number of frames other than Version / Verack the remote has written
    wire,       \* what this endpoint has written on the connection, in order:
                \* one entry per write, a frame being a "head" and a "body"
    writer,     \* owner of the writer mutex: "none" | "main" | "reader"
    responses,  \* ResponsesMap: command name -> queue (Vec) of messages
    connected,  \* the connected flag
    mempool,    \* Mempool.txs: txid -> transaction
    reader,     \* the reader worker: its position and locals
    main,       \* the thread running from_stream and then the public calls
    hsLog,      \* history: the Version / Verack payloads the remote has sent
    pingLog,    \* history: nonces of the pings the reader has taken
    added,      \* history: transactions for which add_tx has returned
    nadds,      \* number of add_tx calls made by other owners of the Mempool
    dropped     \* history: number of frames the reader discarded for their magic

vars == <<inbound, sock, nsent, wire, writer, responses, connected, mempool,
          reader, main, hsLog, pingLog, added, nadds, dropped>>

\* An empty HashMap.
EmptyMap == [k \in {} |-> 0]

\* ---------------------------------------------------------------- Mempool
\* Option::None for an Option<Transaction>.
NoTx == 0

\* add_tx that keeps nothing but the transaction added last.
MempoolAddReplaces(pool, tx) == [k \in {Txid(tx)} |-> tx]

\* Mempool::add_tx: insert under tx.txid(), overwriting an entry of that key.
MempoolAdd(pool, tx) ==
    [k \in DOMAIN pool \cup {Txid(tx)} |-> IF k = Txid(tx) THEN tx ELSE pool[k]]

\* Mempool::has_tx
HasTx(pool, txid) == txid \in DOMAIN pool

\* get_tx that serves Transaction items only.
GetTxNoWitness(pool, item) ==
    IF item.ty # "Transaction"
    THEN NoTx
    ELSE IF item.h \in DOMAIN pool THEN pool[item.h] ELSE NoTx

\* Mempool::get_tx: None for Error / Block / WitnessBlock; a Transaction item
\* is looked up under its txid, a WitnessTransaction item under the Txid made
\* of the wtxid's bytes (Txid::from_inner(wtxid.into_inner())).
GetTx(pool, item) ==
    IF item.ty \in {"Error", "Block", "WitnessBlock"}
    THEN NoTx
    ELSE IF item.h \in DOMAIN pool THEN pool[item.h] ELSE NoTx

\* ----------------------------------------------------------- the registry
\* The queue stored for a command name; an absent mailbox holds nothing.
Queue(resp, k) == IF k \in DOMAIN resp THEN resp[k] ELSE <<>>

\* lock.entry(k).or_default(): create the mailbox when absent.
OrDefault(resp, k) ==
    [c \in DOMAIN resp \cup {k} |-> IF c \in DOMAIN resp THEN resp[c] ELSE <<>>]

\* messages.push(m) on the mailbox of k (reader_thread, lines 360-369).
Push(resp, k, m) == [OrDefault(resp, k) EXCEPT ![k] = Append(@, m)]

\* messages.pop(): Vec::pop takes the last element of the queue.
PopIndex(q) == Len(q)

\* The message _recv returns from a non-empty queue, and the queue it leaves.
Popped(q) == q[PopIndex(q)]
AfterPop(q) == [i \in 1..(Len(q) - 1) |-> IF i < PopIndex(q) THEN q[i] ELSE q[i + 1]]

\* ------------------------------------------------------ the reader worker
\* GetData: (item, mempool.get_tx(item)) for every item, in input order.
Lookups(items, pool) == [i \in 1..Len(items) |-> [item |-> items[i], tx |-> GetTx(pool, items[i])]]

IsFound(p) == p.tx # NoTx
IsNotFound(p) == p.tx = NoTx

\* ServeFrames without the is_empty test: a NotFound is sent in every case.
ServeFramesAlwaysNotFound(items, pool) ==
    LET found == SelectSeq(Lookups(items, pool), IsFound)
        notFound == SelectSeq(Lookups(items, pool), IsNotFound)
    IN  [i \in 1..Len(found) |-> Msg("Tx", found[i].tx, <<>>)]
        \o <<Msg("NotFound", 0, [i \in 1..Len(notFound) |-> notFound[i].item])>>

\* The frames the reader sends for GetData(items): one Tx per found item,
\* then one NotFound with the items not found, when there are any.
ServeFrames(items, pool) ==
    LET found == SelectSeq(Lookups(items, pool), IsFound)
        notFound == SelectSeq(Lookups(items, pool), IsNotFound)
    IN  [i \in 1..Len(found) |-> Msg("Tx", found[i].tx, <<>>)]
        \o (IF notFound # <<>>
            THEN <<Msg("NotFound", 0, [i \in 1..Len(notFound) |-> notFound[i].item])>>
            ELSE <<>>)

\* AutoReply without the Ping arm: the ping is dropped unanswered.
AutoReplyNoPong(m, pool) ==
    IF m.kind = "GetData" THEN ServeFrames(m.inv, pool) ELSE <<>>

\* The frames the reader sends itself for an inbound message.
AutoReply(m, pool) ==
    CASE m.kind = "Ping" -> <<Msg("Pong", m.n, <<>>)>>
      [] m.kind = "GetData" -> ServeFrames(m.inv, pool)
      [] OTHER -> <<>>

\* Whether the reader continues its loop after the transparent handling of m
\* instead of routing m (the `continue` of lines 331 and 333).
SkipsRouting(m) == m.kind \in {"Ping", "Alert"}

\* One write of RawNetworkMessage::consensus_encode on the TcpStream: the
\* frame goes out in several writes, first its header (magic, command, length,
\* checksum: "head") and then its payload ("body").
Part(by, m, part) == [by |-> by, msg |-> m, part |-> part]

\* Outcomes of a write on the socket: it succeeds while the connection is
\* open; after the peer closed it the write may still be accepted or fail;
\* once a write has failed every later write fails.
WriteOutcomes ==
    IF sock = "open" THEN {TRUE} ELSE IF sock = "closed" THEN {TRUE, FALSE} ELSE {FALSE}

\* The connection after a write with the given outcome.
SockAfter(ok) == IF ok THEN sock ELSE "broken"

IdleReader ==
    [pc |-> "read", msg |-> NoMsg, out |-> <<>>, done |-> <<>>, snap |-> EmptyMap,
     part |-> "head"]

\* The reader leaves its loop without clearing the flag.
ReaderExitKeepsFlag ==
    /\ connected' = connected
    /\ reader' = [IdleReader EXCEPT !.pc = "exited"]

\* check_disconnect!: connected = false, break (lines 301-306).
ReaderExit ==
    /\ connected' = FALSE
    /\ reader' = [IdleReader EXCEPT !.pc = "exited"]

\* read_next() fails: a frame that does not decode, or end of stream.
ReaderReadErr ==
    /\ reader.pc = "read"
    /\ \/ inbound # <<>> /\ ~Head(inbound).ok /\ inbound' = Tail(inbound)
       \/ inbound = <<>> /\ sock # "open" /\ inbound' = inbound
    /\ ReaderExit
    /\ UNCHANGED <<sock, nsent, wire, writer, responses, mempool, main, hsLog, pingLog, added, nadds, dropped>>

\* A reader that takes frames of every magic.
MagicAny(raw) == TRUE

\* The magic filter (line 315): the frame carries the magic of our network.
MagicOk(raw) == raw.magic = OurMagic

\* read_next() returns a frame (lines 313-358, up to the first send).
ReaderRead ==
    /\ reader.pc = "read"
    /\ inbound # <<>>
    /\ Head(inbound).ok
    /\ inbound' = Tail(inbound)
    /\ LET raw == Head(inbound)
           m == raw.payload
           out == AutoReply(m, mempool)
       IN  IF ~MagicOk(raw)
           THEN /\ dropped' = dropped + 1
                /\ UNCHANGED <<reader, pingLog>>
           ELSE /\ UNCHANGED dropped
                /\ reader' =
                     [pc |-> IF out # <<>> THEN "reply"
                             ELSE IF SkipsRouting(m) THEN "read" ELSE "route",
                      msg |-> IF out = <<>> /\ SkipsRouting(m) THEN NoMsg ELSE m,
                      out |-> out,
                      done |-> <<>>,
                      snap |-> IF m.kind = "GetData" THEN mempool ELSE EmptyMap,
                      part |-> "head"]
                /\ pingLog' = IF m.kind = "Ping" THEN Append(pingLog, m.n) ELSE pingLog
    /\ UNCHANGED <<sock, nsent, wire, writer, responses, connected, mempool, main,
                   hsLog, added, nadds>>

\* The reader takes the writer without waiting for its holder.
ReaderLockNoWait ==
    /\ reader.pc = "reply"
    /\ writer # "reader"
    /\ writer' = "reader"
    /\ UNCHANGED <<inbound, sock, nsent, wire, responses, connected, mempool, reader,
                   main, hsLog, pingLog, added, nadds, dropped>>

\* reader_thread_writer.lock() for an auto-reply (lines 326, 341, 349).
ReaderLock ==
    /\ reader.pc = "reply"
    /\ writer = "none"
    /\ writer' = "reader"
    /\ UNCHANGED <<inbound, sock, nsent, wire, responses, connected, mempool, reader,
                   main, hsLog, pingLog, added, nadds, dropped>>

\* Where the reader goes when _send of an auto-reply returned Ok.
ReaderAfterSend(r) ==
    IF Len(r.out) > 1
    THEN [r EXCEPT !.out = Tail(@), !.done = Append(@, Head(r.out)), !.part = "head"]
    ELSE IF SkipsRouting(r.msg)
         THEN IdleReader
         ELSE [r EXCEPT !.pc = "route", !.out = <<>>, !.done = Append(@, Head(r.out)),
                        !.part = "head"]

\* _send of one auto-reply under the lock, one write of consensus_encode per
\* step; the guard is dropped when _send returns.
ReaderWrite ==
    /\ reader.pc = "reply"
    /\ writer = "reader"
    /\ \E ok \in WriteOutcomes :
         IF ok
         THEN /\ sock' = SockAfter(ok)
              /\ wire' = Append(wire, Part("reader", Head(reader.out), reader.part))
              /\ IF reader.part = "head"
                 THEN /\ reader' = [reader EXCEPT !.part = "body"]
                      /\ UNCHANGED writer
                 ELSE /\ reader' = ReaderAfterSend(reader)
                      /\ writer' = "none"
              /\ UNCHANGED connected
         ELSE /\ ReaderExit
              /\ writer' = "none"
              /\ sock' = SockAfter(ok)
              /\ UNCHANGED wire
    /\ UNCHANGED <<inbound, nsent, responses, mempool, main, hsLog, pingLog, added, nadds, dropped>>

\* Routing in which CFilter messages land in the mailbox of CFHeaders.
ReaderRouteCollision ==
    /\ reader.pc = "route"
    /\ responses' = Push(responses,
                         IF reader.msg.kind = "CFilter" THEN "cfheaders" ELSE Cmd(reader.msg),
                         reader.msg)
    /\ reader' = IdleReader
    /\ UNCHANGED <<inbound, sock, nsent, wire, writer, connected, mempool, main,
                   hsLog, pingLog, added, nadds, dropped>>

\* Routing: push into the mailbox of in_message.cmd() (lines 360-369).
ReaderRoute ==
    /\ reader.pc = "route"
    /\ responses' = Push(responses, Cmd(reader.msg), reader.msg)
    /\ reader' = IdleReader
    /\ UNCHANGED <<inbound, sock, nsent, wire, writer, connected, mempool, main,
                   hsLog, pingLog, added, nadds, dropped>>

\* --------------------------------------------------------- the environment
\* The remote peer writes one frame.
IsHandshakeFrame(f) ==
    f.ok /\ f.magic = OurMagic /\ f.payload.kind \in {"Version", "Verack"}

RemoteSend(f) ==
    /\ sock = "open"
    /\ Len(inbound) < MaxPipe
    /\ IF IsHandshakeFrame(f)
       THEN /\ Len(hsLog) < MaxHandshake
            /\ hsLog' = Append(hsLog, f.payload)
            /\ UNCHANGED nsent
       ELSE /\ nsent < MaxInbound
            /\ nsent' = nsent + 1
            /\ UNCHANGED hsLog
    /\ inbound' = Append(inbound, f)
    /\ UNCHANGED <<sock, wire, writer, responses, connected, mempool, reader, main,
                   pingLog, added, nadds, dropped>>

\* The remote peer closes the connection (or the connection breaks).
RemoteClose ==
    /\ sock = "open"
    /\ sock' = "closed"
    /\ UNCHANGED <<inbound, nsent, wire, writer, responses, connected, mempool, reader,
                   main, hsLog, pingLog, added, nadds, dropped>>

\* Another owner of the shared Mempool calls add_tx(tx).
AddTx(tx) ==
    /\ nadds < MaxAdds
    /\ nadds' = nadds + 1
    /\ mempool' = MempoolAdd(mempool, tx)
    /\ added' = added \cup {tx}
    /\ UNCHANGED <<inbound, sock, nsent, wire, writer, responses, connected, reader,
                   main, hsLog, pingLog, dropped>>

\* ------------------------------------------------------- the main thread
\* Locals of the thread that runs from_stream and then the public calls:
\*   pc     position in the running function
\*   wait   position inside _recv: "no" | "wait" (in cvar.wait / wait_timeout)
\*          | "timedout" (wait_timeout reported a timeout, line 256)
\*   op, ft, stop, tx   the running (or last) call and its arguments
\*   resp   what the last recv returned (NoMsg for None)
\*   res, val     the result of the last call that returned, and its payload
\*   ver    the VersionMessage taken during the handshake
\*   inv, gd, left   ask_for_mempool: the inv, getdata and the txs still awaited
\*   out, got, snap  history of the running call: frames it wrote, txs it
\*          consumed, and the mempool as ask_for_mempool's filter saw it
\*   calls  public calls made so far
\*   part   position inside _send: the next write of the frame
InitMain ==
    [pc |-> "hs_lock", wait |-> "no", op |-> "from_stream", ft |-> 0, stop |-> 0,
     tx |-> NoTx,
     resp |-> NoMsg, res |-> "none", val |-> NoMsg, ver |-> NoMsg,
     inv |-> <<>>, gd |-> <<>>, left |-> 0,
     out |-> <<>>, got |-> <<>>, snap |-> EmptyMap, calls |-> 0, part |-> "head"]

\* The function returns: Ok / Err(e) to the caller.  from_stream returning an
\* error yields no Peer ("failed"); every other return leaves the Peer idle.
Return(m, res, val) ==
    [m EXCEPT !.pc = IF m.op = "from_stream" /\ res # "Ok" THEN "failed" ELSE "idle",
              !.wait = "no", !.res = res, !.val = val, !.part = "head"]

\* --- from_stream (lines 144-217)
\* let mut locked_writer = writer.lock().unwrap();  (line 153)
HsLock ==
    /\ main.pc = "hs_lock"
    /\ writer = "none"
    /\ writer' = "main"
    /\ main' = [main EXCEPT !.pc = "hs_spawn"]
    /\ UNCHANGED <<inbound, sock, nsent, wire, responses, connected, mempool, reader,
                   hsLog, pingLog, added, nadds, dropped>>

\* thread::spawn of the reader worker (lines 159-168).
HsSpawn ==
    /\ main.pc = "hs_spawn"
    /\ reader' = IdleReader
    /\ main' = [main EXCEPT !.pc = "hs_send_version"]
    /\ UNCHANGED <<inbound, sock, nsent, wire, writer, responses, connected, mempool,
                   hsLog, pingLog, added, nadds, dropped>>

\* Our Version: the user agent and services are fixed, the rest is not read
\* back by this file.
OurVersion == Msg("Version", 0, <<>>)

\* from_stream writing its Verack first and its Version last.
HsFrameVerackFirst(m) ==
    IF m.pc = "hs_send_version" THEN Msg("Verack", 0, <<>>) ELSE OurVersion

\* The frame from_stream writes at its two _send calls (lines 179, 201).
HsFrame(m) == IF m.pc = "hs_send_version" THEN OurVersion ELSE Msg("Verack", 0, <<>>)

\* Where from_stream goes after a successful _send.
HsAfterSend(m) ==
    [m EXCEPT !.pc = IF m.pc = "hs_send_version" THEN "hs_recv_version" ELSE "hs_return",
              !.out = Append(@, HsFrame(m)), !.part = "head"]

\* Self::_send(&mut locked_writer, ..)? under the lock taken at line 153; on
\* an error from_stream returns and the guard is dropped.
HsSend ==
    /\ main.pc \in {"hs_send_version", "hs_send_verack"}
    /\ \E ok \in WriteOutcomes :
         IF ok
         THEN /\ sock' = SockAfter(ok)
              /\ wire' = Append(wire, Part("main", HsFrame(main), main.part))
              /\ main' = IF main.part = "head" THEN [main EXCEPT !.part = "body"]
                         ELSE HsAfterSend(main)
              /\ UNCHANGED writer
         ELSE /\ main' = Return(main, "DataCorruption", NoMsg)
              /\ writer' = "none"
              /\ sock' = SockAfter(ok)
              /\ UNCHANGED wire
    /\ UNCHANGED <<inbound, nsent, responses, connected, mempool, reader,
                   hsLog, pingLog, added, nadds, dropped>>

\* std::mem::drop(locked_writer); Ok(Peer { .. })  (lines 206-216)
HsReturn ==
    /\ main.pc = "hs_return"
    /\ writer' = "none"
    /\ main' = Return(main, "Ok", main.ver)
    /\ UNCHANGED <<inbound, sock, nsent, wire, responses, connected, mempool, reader,
                   hsLog, pingLog, added, nadds, dropped>>

\* --- the public calls
Calls ==
    {[op |-> o, ft |-> ft, stop |-> 1, tx |-> NoTx] :
        o \in {"get_cf_checkpt", "get_cf_headers", "get_cf_filters"}, ft \in {0, 1}}
    \cup {[op |-> o, ft |-> 0, stop |-> 0, tx |-> NoTx] :
        o \in {"pop_cf_filter_resp", "get_block", "ask_for_mempool"}}
    \cup {[op |-> "broadcast_tx", ft |-> 0, stop |-> 0, tx |-> tx] : tx \in Txs}

\* Entry of a public function with the arguments c.
Enter(c) ==
    /\ main' = [InitMain EXCEPT
                  !.pc = CASE c.op = "pop_cf_filter_resp" -> "recv"
                           [] c.op = "broadcast_tx" -> "bc_add"
                           [] OTHER -> "send",
                  !.op = c.op, !.ft = c.ft, !.stop = c.stop, !.tx = c.tx,
                  !.ver = main.ver, !.calls = main.calls + 1]
    /\ UNCHANGED <<inbound, sock, nsent, wire, writer, responses, connected, mempool,
                   reader, hsLog, pingLog, added, nadds, dropped>>

\* The caller enters a public function of the Peer.
Call(c) ==
    /\ main.pc = "idle"
    /\ main.calls < MaxCalls
    /\ Enter(c)

\* The block hash get_block asks for.
BlockHash == Txid(1)

\* The message a public function hands to send().
SendMsg(m) ==
    CASE m.pc = "mp_getdata" -> Msg("GetData", 0, m.gd)
      [] m.op = "get_cf_checkpt" -> CfMsg("GetCFCheckpt", m.ft, m.stop)
      [] m.op = "get_cf_headers" -> CfMsg("GetCFHeaders", m.ft, m.stop)
      [] m.op = "get_cf_filters" -> CfMsg("GetCFilters", m.ft, m.stop)
      [] m.op = "get_block" -> Msg("GetData", 0, <<InvWitnessBlock(BlockHash)>>)
      [] m.op = "ask_for_mempool" -> Msg("MemPool", 0, <<>>)
      [] OTHER -> Msg("Tx", m.tx, <<>>)

\* Where the function goes when send() returned Ok.
AfterSend(m) ==
    LET n == [m EXCEPT !.out = Append(@, SendMsg(m)), !.part = "head"]
    IN  CASE m.pc = "mp_getdata" ->
               IF m.left = 0 THEN Return(n, "Ok", NoMsg) ELSE [n EXCEPT !.pc = "mp_recv_tx"]
          [] m.op \in {"get_cf_filters", "broadcast_tx"} -> Return(n, "Ok", NoMsg)
          [] OTHER -> [n EXCEPT !.pc = "recv"]

\* Peer::send, first half: self.writer.lock()  (line 375)
SendLock ==
    /\ main.pc \in {"send", "mp_getdata"}
    /\ writer = "none"
    /\ writer' = "main"
    /\ UNCHANGED <<inbound, sock, nsent, wire, responses, connected, mempool, reader,
                   main, hsLog, pingLog, added, nadds, dropped>>

\* Peer::send, second half: _send under the lock, one write per step; the
\* guard is dropped when _send returns (lines 376-377) and the caller's `?`
\* returns the error.
SendWrite ==
    /\ main.pc \in {"send", "mp_getdata"}
    /\ writer = "main"
    /\ \E ok \in WriteOutcomes :
         IF ok
         THEN /\ sock' = SockAfter(ok)
              /\ wire' = Append(wire, Part("main", SendMsg(main), main.part))
              /\ IF main.part = "head"
                 THEN /\ main' = [main EXCEPT !.part = "body"]
                      /\ UNCHANGED writer
                 ELSE /\ main' = AfterSend(main)
                      /\ writer' = "none"
         ELSE /\ main' = Return(main, "DataCorruption", NoMsg)
              /\ writer' = "none"
              /\ sock' = SockAfter(ok)
              /\ UNCHANGED wire
    /\ UNCHANGED <<inbound, nsent, responses, connected, mempool, reader,
                   hsLog, pingLog, added, nadds, dropped>>

\* --- _recv (lines 237-266) at its call sites
RecvPcs == {"hs_recv_version", "hs_recv_verack", "recv", "mp_recv_tx"}

\* RecvCmd with the handshake's second wait on the "version" mailbox.
RecvCmdVersionTwice(m) ==
    CASE m.op = "from_stream" -> "version"
      [] m.pc = "mp_recv_tx" -> "tx"
      [] m.op = "get_cf_checkpt" -> "cfcheckpt"
      [] m.op = "get_cf_headers" -> "cfheaders"
      [] m.op = "pop_cf_filter_resp" -> "cfilter"
      [] m.op = "get_block" -> "block"
      [] OTHER -> "inv"

\* wait_for at the call site.
RecvCmd(m) ==
    CASE m.pc = "hs_recv_version" -> "version"
      [] m.pc = "hs_recv_verack" -> "verack"
      [] m.pc = "mp_recv_tx" -> "tx"
      [] m.op = "get_cf_checkpt" -> "cfcheckpt"
      [] m.op = "get_cf_headers" -> "cfheaders"
      [] m.op = "pop_cf_filter_resp" -> "cfilter"
      [] m.op = "get_block" -> "block"
      [] OTHER -> "inv"

\* Whether the call site passes Some(timeout); the handshake passes None.
RecvTimed(m) == m.op # "from_stream"

\* The variant the call site accepts.
Expected(m) ==
    CASE m.pc = "hs_recv_version" -> "Version"
      [] m.pc = "hs_recv_verack" -> "Verack"
      [] m.pc = "mp_recv_tx" -> "Tx"
      [] m.op = "get_cf_checkpt" -> "CFCheckpt"
      [] m.op = "get_cf_headers" -> "CFHeaders"
      [] m.op = "pop_cf_filter_resp" -> "CFilter"
      [] m.op = "get_block" -> "Block"
      [] OTHER -> "Inv"

\* The reply is accepted whatever its filter_type.
FilterTypeAny(m, r) == TRUE

\* The filter_type comparison of get_cf_checkpt / get_cf_headers
\* (lines 429 and 456).
FilterTypeOk(m, r) == r.n = m.ft

\* What the call site does with the value r that _recv returned.
AfterRecv(m, r) ==
    LET n == [m EXCEPT !.resp = r, !.wait = "no"]
    IN  IF r = NoMsg
        THEN \* only a timed recv returns None
             IF m.op \in {"get_block", "ask_for_mempool"} /\ m.pc = "recv"
             THEN Return(n, "Ok", NoMsg)
             ELSE Return(n, "Timeout", NoMsg)
        ELSE IF r.kind # Expected(m)
        THEN Return(n, "InvalidResponse", NoMsg)
        ELSE CASE m.pc = "hs_recv_version" -> [n EXCEPT !.pc = "hs_recv_verack", !.ver = r]
               [] m.pc = "hs_recv_verack" -> [n EXCEPT !.pc = "hs_send_verack"]
               [] m.pc = "mp_recv_tx" -> [n EXCEPT !.pc = "mp_add", !.got = Append(@, r.n)]
               [] m.op \in {"get_cf_checkpt", "get_cf_headers"} ->
                    IF FilterTypeOk(m, r) THEN Return(n, "Ok", r)
                    ELSE Return(n, "InvalidResponse", NoMsg)
               [] m.op = "ask_for_mempool" -> [n EXCEPT !.pc = "mp_filter", !.inv = r.inv]
               [] OTHER -> Return(n, "Ok", r)

\* The writer mutex after a step of main: from_stream's guard is dropped when
\* from_stream returns.
WriterAfter(m) == IF m.pc = "failed" THEN "none" ELSE writer

\* _recv up to the first wait: the mailbox is created when absent, and a
\* non-empty queue is popped at once (lines 242-251, 265).
RecvStart ==
    /\ main.pc \in RecvPcs
    /\ main.wait = "no"
    /\ LET k == RecvCmd(main)
           q == Queue(responses, k)
       IN  IF q = <<>>
           THEN /\ responses' = OrDefault(responses, k)
                /\ main' = [main EXCEPT !.wait = "wait"]
           ELSE /\ responses' = [responses EXCEPT ![k] = AfterPop(q)]
                /\ main' = AfterRecv(main, Popped(q))
    /\ writer' = WriterAfter(main')
    /\ UNCHANGED <<inbound, sock, nsent, wire, connected, mempool, reader,
                   hsLog, pingLog, added, nadds, dropped>>

\* The wait returns with the queue non-empty: the loop ends and the message
\* is popped (lines 251-265).  A wakeup that finds the queue empty waits again.
RecvWake ==
    /\ main.pc \in RecvPcs
    /\ main.wait = "wait"
    /\ LET k == RecvCmd(main)
           q == Queue(responses, k)
       IN  /\ q # <<>>
           /\ responses' = [responses EXCEPT ![k] = AfterPop(q)]
           /\ main' = AfterRecv(main, Popped(q))
    /\ writer' = WriterAfter(main')
    /\ UNCHANGED <<inbound, sock, nsent, wire, connected, mempool, reader,
                   hsLog, pingLog, added, nadds, dropped>>

\* wait_timeout runs out of time with nothing pushed; the waiter has yet to
\* take the mailbox lock again.
RecvExpire ==
    /\ main.pc \in RecvPcs
    /\ main.wait = "wait"
    /\ RecvTimed(main)
    /\ Queue(responses, RecvCmd(main)) = <<>>
    /\ main' = [main EXCEPT !.wait = "timedout"]
    /\ UNCHANGED <<inbound, sock, nsent, wire, writer, responses, connected, mempool,
                   reader, hsLog, pingLog, added, nadds, dropped>>

\* A timed-out _recv that drops the newest queued message.
AfterTimeoutPops(q) == IF q = <<>> THEN q ELSE SubSeq(q, 1, Len(q) - 1)

\* The queue a timed-out _recv leaves behind: it returns without touching it.
AfterTimeout(q) == q

\* wait_timeout returned with timed_out(): return Ok(None)  (lines 256-258).
RecvNone ==
    /\ main.pc \in RecvPcs
    /\ main.wait = "timedout"
    /\ responses' = [responses EXCEPT ![RecvCmd(main)] = AfterTimeout(@)]
    /\ main' = AfterRecv(main, NoMsg)
    /\ UNCHANGED <<inbound, sock, nsent, wire, writer, connected, mempool, reader,
                   hsLog, pingLog, added, nadds, dropped>>

\* --- ask_for_mempool and broadcast_tx, the steps between send and recv
\* The filter without the has_tx test: every Transaction item is asked for.
WantedAll(pool, item) == item.ty = "Transaction"

\* The filter of lines 518-525: Transaction(txid) items the mempool lacks.
Wanted(pool, item) == item.ty = "Transaction" /\ ~HasTx(pool, item.h)

FilterInv(inv, pool) ==
    LET Keep(item) == Wanted(pool, item)
    IN  SelectSeq(inv, Keep)

MpFilter ==
    /\ main.pc = "mp_filter"
    /\ main' = [main EXCEPT !.pc = "mp_getdata",
                            !.gd = FilterInv(main.inv, mempool),
                            !.left = Len(FilterInv(main.inv, mempool)),
                            !.snap = mempool]
    /\ UNCHANGED <<inbound, sock, nsent, wire, writer, responses, connected, mempool,
                   reader, hsLog, pingLog, added, nadds, dropped>>

\* self.mempool.add_tx(tx) inside the loop of lines 529-539.
MpAdd ==
    /\ main.pc = "mp_add"
    /\ mempool' = MempoolAdd(mempool, main.resp.n)
    /\ added' = added \cup {main.resp.n}
    /\ LET n == [main EXCEPT !.left = @ - 1]
       IN  main' = IF n.left = 0 THEN Return(n, "Ok", NoMsg)
                   ELSE [n EXCEPT !.pc = "mp_recv_tx"]
    /\ UNCHANGED <<inbound, sock, nsent, wire, writer, responses, connected, reader,
                   hsLog, pingLog, nadds, dropped>>

\* broadcast_tx that goes on to send without the local insert.
BcAddSkips ==
    /\ main.pc = "bc_add"
    /\ main' = [main EXCEPT !.pc = "send"]
    /\ UNCHANGED <<inbound, sock, nsent, wire, writer, responses, connected, reader,
                   hsLog, pingLog, nadds, mempool, added, dropped>>

\* self.mempool.add_tx(tx.clone()) of broadcast_tx (line 545).
BcAdd ==
    /\ main.pc = "bc_add"
    /\ mempool' = MempoolAdd(mempool, main.tx)
    /\ added' = added \cup {main.tx}
    /\ main' = [main EXCEPT !.pc = "send"]
    /\ UNCHANGED <<inbound, sock, nsent, wire, writer, responses, connected, reader,
                   hsLog, pingLog, nadds, dropped>>

\* ---------------------------------------------------------- specification
Init ==
    /\ inbound = <<>>
    /\ sock = "open"
    /\ nsent = 0
    /\ wire = <<>>
    /\ writer = "none"
    /\ responses = EmptyMap
    /\ connected = TRUE
    /\ mempool = EmptyMap
    /\ reader = [IdleReader EXCEPT !.pc = "unborn"]
    /\ main = InitMain
    /\ hsLog = <<>>
    /\ pingLog = <<>>
    /\ added = {}
    /\ nadds = 0
    /\ dropped = 0

Next ==
    \/ HsLock
    \/ HsSpawn
    \/ HsSend
    \/ HsReturn
    \/ \E c \in Calls : Call(c)
    \/ SendLock
    \/ SendWrite
    \/ RecvStart
    \/ RecvWake
    \/ RecvExpire
    \/ RecvNone
    \/ MpFilter
    \/ MpAdd
    \/ BcAdd
    \/ ReaderRead
    \/ ReaderReadErr
    \/ ReaderLock
    \/ ReaderWrite
    \/ ReaderRoute
    \/ \E f \in RemoteFrames : RemoteSend(f)
    \/ RemoteClose
    \/ \E tx \in Txs : AddTx(tx)

Spec == Init /\ [][Next]_vars

\* Steps of the two threads of the endpoint.
MainNext ==
    \/ HsLock \/ HsSpawn \/ HsSend \/ HsReturn
    \/ SendLock \/ SendWrite
    \/ RecvStart \/ RecvWake \/ RecvExpire \/ RecvNone
    \/ MpFilter \/ MpAdd \/ BcAdd

ReaderNext == ReaderRead \/ ReaderReadErr \/ ReaderLock \/ ReaderWrite \/ ReaderRoute

\* Both threads are scheduled: a step of either that stays possible is taken.
FairSpec == Spec /\ WF_vars(MainNext) /\ WF_vars(ReaderNext)

\* from_stream alone: the connection from its creation until from_stream
\* returns; no public call is made on the Peer.
HsNext ==
    \/ HsLock
    \/ HsSpawn
    \/ HsSend
    \/ HsReturn
    \/ RecvStart
    \/ RecvWake
    \/ ReaderRead
    \/ ReaderReadErr
    \/ ReaderLock
    \/ ReaderWrite
    \/ ReaderRoute
    \/ \E f \in RemoteFrames : RemoteSend(f)
    \/ RemoteClose
    \/ \E tx \in Txs : AddTx(tx)

HsFairSpec == Init /\ [][HsNext]_vars /\ WF_vars(MainNext) /\ WF_vars(ReaderNext)

\* --- a connected Peer used for compact-filter round trips
\* The state in which from_stream has returned Ok(Peer) after the exchange
\* Version, Version(1), Verack, Verack, with nothing else on the connection.
PeerInit ==
    /\ inbound = <<>>
    /\ sock = "open"
    /\ nsent = 0
    /\ wire = << Part("main", OurVersion, "head"), Part("main", OurVersion, "body"),
                 Part("main", Msg("Verack", 0, <<>>), "head"),
                 Part("main", Msg("Verack", 0, <<>>), "body") >>
    /\ writer = "none"
    /\ responses = OrDefault(OrDefault(EmptyMap, "version"), "verack")
    /\ connected = TRUE
    /\ mempool = EmptyMap
    /\ reader = IdleReader
    /\ main = [InitMain EXCEPT !.pc = "idle", !.res = "Ok",
                               !.resp = Msg("Verack", 0, <<>>),
                               !.val = Msg("Version", 1, <<>>),
                               !.ver = Msg("Version", 1, <<>>),
                               !.out = <<OurVersion, Msg("Verack", 0, <<>>)>>]
    /\ hsLog = <<Msg("Version", 1, <<>>), Msg("Verack", 0, <<>>)>>
    /\ pingLog = <<>>
    /\ added = {}
    /\ nadds = 0
    /\ dropped = 0

\* The arguments of the get_cf_checkpt / get_cf_headers calls.
CfCalls ==
    {[op |-> o, ft |-> ft, stop |-> h, tx |-> NoTx] :
        o \in {"get_cf_checkpt", "get_cf_headers"}, ft \in {0, 1}, h \in {1, 2}}

\* The caller enters get_cf_checkpt or get_cf_headers.
CfCall(c) ==
    /\ main.pc = "idle"
    /\ main.calls < MaxCfCalls
    /\ Enter(c)

\* The requests the remote peer has received, in order: the complete
\* GetCFCheckpt / GetCFHeaders frames on the wire.
CfRequests ==
    LET IsReq(f) == f.part = "body" /\ f.msg.kind \in {"GetCFCheckpt", "GetCFHeaders"}
        sel == SelectSeq(wire, IsReq)
    IN  [i \in 1..Len(sel) |-> sel[i].msg]

\* The reply of a well-behaved remote to a request: the matching variant
\* with the request's filter_type and stop_hash.
CfReply(req) ==
    CfMsg(IF req.kind = "GetCFCheckpt" THEN "CFCheckpt" ELSE "CFHeaders", req.n, req.stop)

\* The remote peer answers the oldest request it has not answered yet.
RemoteAnswer ==
    /\ sock = "open"
    /\ Len(inbound) < MaxPipe
    /\ nsent < Len(CfRequests)
    /\ inbound' = Append(inbound, Raw(OurMagic, CfReply(CfRequests[nsent + 1])))
    /\ nsent' = nsent + 1
    /\ UNCHANGED <<sock, wire, writer, responses, connected, mempool, reader, main,
                   hsLog, pingLog, added, nadds, dropped>>

CfNext ==
    \/ \E c \in CfCalls : CfCall(c)
    \/ SendLock
    \/ SendWrite
    \/ RecvStart
    \/ RecvWake
    \/ RecvExpire
    \/ RecvNone
    \/ ReaderRead
    \/ ReaderReadErr
    \/ ReaderRoute
    \/ RemoteAnswer
    \/ RemoteClose

\* A connected Peer, a caller making compact-filter round trips on it, and a
\* remote peer that answers every request once, in order.
CfSpec == PeerInit /\ [][CfNext]_vars

\* ------------------------------------------------------------------ claims

\* C1 (Mailbox FIFO): whenever a recv takes a message out of the mailbox of a
\* command, the message it returns is the one that arrived first among those
\* queued, so two messages routed one after the other are returned in the
\* order they arrived.
C1_MailboxFifo ==
    [][(main.pc \in RecvPcs
          /\ Len(Queue(responses', RecvCmd(main))) < Len(Queue(responses, RecvCmd(main))))
        => main'.resp = Head(Queue(responses, RecvCmd(main)))]_vars

\* C2 (Deadlock avoidance): in no reachable state does a thread hold the writer
\* mutex while it is inside recv on a mailbox; this covers the public
\* operations and the handshake of from_stream.
C2_NoRecvUnderWriterLock ==
    ~(writer = "main" /\ main.pc \in RecvPcs)

\* C3 (Handshake success): when the frames the remote peer has sent are one
\* Version v and then one Verack, then, unless the socket is closed (or a
\* write on it has failed) or the remote sends a further Version / Verack,
\* from_stream eventually returns Ok and get_version() of the Peer is v.
C3_HandshakeSuccess ==
    \A v \in {1, 2} :
        (hsLog = <<Msg("Version", v, <<>>), Msg("Verack", 0, <<>>)>> /\ nsent = 0)
            ~> (\/ sock # "open"
                \/ Len(hsLog) > 2
                \/ main.pc = "idle" /\ main.res = "Ok" /\ main.val = Msg("Version", v, <<>>))

C3_Witness ==
    /\ main.op = "from_stream" /\ main.pc = "idle" /\ main.res = "Ok"
    /\ hsLog = <<Msg("Version", 2, <<>>), Msg("Verack", 0, <<>>)>>
    /\ main.val = Msg("Version", 2, <<>>)
    /\ sock = "open"

\* The nonces of the Pong frames the reader has written, in wire order.
PongsOf(w) ==
    LET IsPong(f) == f.by = "reader" /\ f.part = "body" /\ f.msg.kind = "Pong"
        sel == SelectSeq(w, IsPong)
    IN  [i \in 1..Len(sel) |-> sel[i].msg.n]

\* A message is pushed into some mailbox in this step.
RouteStep ==
    \E k \in DOMAIN responses' : Len(Queue(responses', k)) > Len(Queue(responses, k))

\* C4 (Auto-pong): whenever the reader routes a message into a mailbox, a
\* Pong(n) has been written for every Ping(n) of our magic it took before, in
\* the same order; and no Ping is ever placed in a mailbox.
C4_AutoPong ==
    /\ [](\A k \in DOMAIN responses :
             \A i \in 1..Len(responses[k]) : responses[k][i].kind # "Ping")
    /\ [][RouteStep => PongsOf(wire) = pingLog]_vars

C4_Witness ==
    /\ pingLog # <<>>
    /\ PongsOf(wire) = pingLog
    /\ reader.pc = "route"
    /\ sock = "open"
    /\ main.pc = "idle"

\* The entries of seq at the indexes in S, in the order of seq.
Restrict(seq, S) ==
    LET F[i \in 0..Len(seq)] ==
            IF i = 0 THEN <<>>
            ELSE IF i \in S THEN Append(F[i - 1], seq[i]) ELSE F[i - 1]
    IN  F[Len(seq)]

\* The frames the reader has written, in wire order.
ReaderFrames(w) ==
    LET ByReader(f) == f.by = "reader" /\ f.part = "body"
        sel == SelectSeq(w, ByReader)
    IN  [i \in 1..Len(sel) |-> sel[i].msg]

\* C5 (Auto-serve): when the reader has served GetData(items), the frames it
\* wrote for it are one Tx per item that get_tx found, in the order of items,
\* followed by one NotFound listing exactly the items not found, in order; no
\* NotFound when every item was found; Block / WitnessBlock items are listed
\* in the NotFound.
C5_AutoServe ==
    (reader.pc = "route" /\ reader.msg.kind = "GetData") =>
        LET items == reader.msg.inv
            pool == reader.snap
            found == {i \in 1..Len(items) : GetTx(pool, items[i]) # NoTx}
            missing == (1..Len(items)) \ found
            nTx == Cardinality(found)
            done == reader.done
            rf == ReaderFrames(wire)
        IN  /\ Len(done) = nTx + (IF missing = {} THEN 0 ELSE 1)
            /\ \A k \in 1..nTx :
                 /\ done[k].kind = "Tx"
                 /\ done[k].n = GetTx(pool, Restrict(items, found)[k])
            /\ missing # {} =>
                 /\ done[Len(done)].kind = "NotFound"
                 /\ done[Len(done)].inv = Restrict(items, missing)
            /\ \A i \in 1..Len(items) :
                 items[i].ty \in {"Block", "WitnessBlock"} => i \in missing
            /\ Len(rf) >= Len(done)
            /\ SubSeq(rf, Len(rf) - Len(done) + 1, Len(rf)) = done

C5_Witness ==
    /\ reader.pc = "route" /\ reader.msg.kind = "GetData"
    /\ Len(reader.done) >= 2
    /\ reader.done[1].kind = "Tx"
    /\ reader.done[Len(reader.done)].kind = "NotFound"
    /\ Len(reader.done[Len(reader.done)].inv) >= 2
    /\ sock = "open"

\* C6 (Timeout leaves the mailboxes untouched): a step of recv(c, ..) never
\* changes the queue of another command, and the step in which recv returns
\* None leaves the queue of c as it was.
C6_TimeoutLeavesMailboxes ==
    [][(main.pc \in RecvPcs /\ main' # main) =>
          /\ \A k \in (DOMAIN responses \cup DOMAIN responses') \ {RecvCmd(main)} :
                Queue(responses', k) = Queue(responses, k)
          /\ (main'.wait = "no" /\ main'.resp = NoMsg) =>
                Queue(responses', RecvCmd(main)) = Queue(responses, RecvCmd(main))]_vars

C6_Witness ==
    /\ main.op = "pop_cf_filter_resp" /\ main.pc = "idle"
    /\ main.res = "Timeout" /\ main.resp = NoMsg
    /\ Queue(responses, "cfilter") # <<>>
    /\ \E k \in DOMAIN responses \ {"cfilter"} : responses[k] # <<>>

\* C7 (connected flag): connected is true at creation; it is false exactly
\* when the reader worker has exited; the step that clears it is the reader's
\* exit; once false it stays false.
C7_ConnectedFlag ==
    /\ connected = TRUE
    /\ [](connected <=> reader.pc # "exited")
    /\ [][~connected => ~connected']_vars
    /\ [][(connected /\ ~connected') => (reader.pc # "exited" /\ reader'.pc = "exited")]_vars

C7_Witness == ~connected /\ reader.pc = "exited"

\* C8 (Mempool identity): for every transaction t whose add_tx has returned,
\* has_tx(t.txid()) holds and get_tx gives t for Transaction(t.txid()) and for
\* the WitnessTransaction of the same bytes; get_tx of an Error, Block or
\* WitnessBlock item is None; get_tx of a transaction item of an absent id is
\* None.
C8_MempoolIdentity ==
    /\ \A t \in added :
         /\ HasTx(mempool, Txid(t))
         /\ GetTx(mempool, InvTransaction(Txid(t))) = t
         /\ GetTx(mempool, InvWitnessTransaction(Txid(t))) = t
    /\ GetTx(mempool, InvError) = NoTx
    /\ \A h \in Hashes :
         /\ GetTx(mempool, InvBlock(h)) = NoTx
         /\ GetTx(mempool, InvWitnessBlock(h)) = NoTx
         /\ ~HasTx(mempool, h) =>
              /\ GetTx(mempool, InvTransaction(h)) = NoTx
              /\ GetTx(mempool, InvWitnessTransaction(h)) = NoTx

C8_Witness ==
    /\ added # {}
    /\ \E h \in Hashes : ~HasTx(mempool, h)
    /\ \E h \in Hashes : HasTx(mempool, h)

C10_FilterTypeCheck ==
    (main.op \in {"get_cf_checkpt", "get_cf_headers"} /\ main.pc = "idle") =>
        /\ main.res = "Ok" =>
             /\ main.val = main.resp
             /\ main.val.kind = (IF main.op = "get_cf_checkpt" THEN "CFCheckpt" ELSE "CFHeaders")
             /\ main.val.n = main.ft
        /\ (main.resp # NoMsg /\ main.resp.n # main.ft) => main.res = "InvalidResponse"
        /\ (main.resp = NoMsg /\ main.out # <<>>) => main.res = "Timeout"

C10_Witness ==
    /\ main.op = "get_cf_checkpt" /\ main.pc = "idle"
    /\ main.res = "InvalidResponse"
    /\ main.resp.kind = "CFCheckpt"
    /\ main.resp.n # main.ft

\* The frame a thread is in the middle of writing (its header is out, its
\* payload is not), or NoMsg.
HalfWritten(t) ==
    IF t = "main"
    THEN IF main.part # "body" THEN NoMsg
         ELSE IF main.pc \in {"hs_send_version", "hs_send_verack"} THEN HsFrame(main)
         ELSE SendMsg(main)
    ELSE IF reader.part # "body" THEN NoMsg ELSE Head(reader.out)

\* C11 (Writer serialization): every write on the connection is made by the
\* thread that holds the writer mutex, and that thread holds it from the first
\* write of a frame to the last; so on the wire the payload of a frame directly
\* follows its own header, and while no write has failed every header is
\* directly followed by its own payload: the parts of two frames (of send
\* callers, of the handshake, of the reader's auto-replies) never interleave.
C11_WriterSerialization ==
    /\ [](\A t \in {"main", "reader"} :
             HalfWritten(t) # NoMsg =>
                /\ writer = t
                /\ wire # <<>>
                /\ wire[Len(wire)] = Part(t, HalfWritten(t), "head"))
    /\ [](\A i \in 1..Len(wire) :
             /\ wire[i].part = "body" =>
                  i > 1 /\ wire[i - 1] = Part(wire[i].by, wire[i].msg, "head")
             /\ (wire[i].part = "head" /\ i < Len(wire) /\ sock = "open") =>
                  wire[i + 1] = Part(wire[i].by, wire[i].msg, "body"))
    /\ [][wire' # wire =>
            /\ Len(wire') = Len(wire) + 1
            /\ SubSeq(wire', 1, Len(wire)) = wire
            /\ writer = wire'[Len(wire')].by]_vars

C11_Witness ==
    /\ main.op # "from_stream" /\ HalfWritten("main") # NoMsg
    /\ reader.pc = "reply" /\ writer = "main"
    /\ \E i \in 1..Len(wire) : wire[i].by = "reader" /\ wire[i].part = "body"

\* The transactions broadcast_tx has announced: a Tx frame of the caller is
\* (at least in part) on the wire.
Announced(w) == {w[i].msg.n : i \in {j \in 1..Len(w) : w[j].by = "main" /\ w[j].msg.kind = "Tx"}}

\* C12 (broadcast_tx ordering): broadcast_tx(tx) has inserted tx into the
\* mempool before it writes anything of the Tx(tx) frame, so the mempool holds
\* every announced tx; tx stays in the mempool through the rest of the call,
\* also when the send fails; and a GetData the reader takes after the announce
\* that asks for Transaction(tx.txid()) is answered with Tx(tx), its NotFound
\* (if any) not listing that item.
C12_BroadcastOrder ==
    /\ [](\A tx \in Announced(wire) :
             HasTx(mempool, Txid(tx)) /\ mempool[Txid(tx)] = tx)
    /\ []((main.op = "broadcast_tx" /\ main.pc # "bc_add") =>
             GetTx(mempool, InvTransaction(Txid(main.tx))) = main.tx)
    /\ [][(reader.pc = "read" /\ reader'.pc = "reply" /\ reader'.msg.kind = "GetData") =>
            \A tx \in Announced(wire) :
               (\E j \in 1..Len(reader'.msg.inv) :
                    reader'.msg.inv[j] = InvTransaction(Txid(tx))) =>
                  /\ \E k \in 1..Len(reader'.out) : reader'.out[k] = Msg("Tx", tx, <<>>)
                  /\ \A k \in 1..Len(reader'.out) :
                        reader'.out[k].kind = "NotFound" =>
                           \A j \in 1..Len(reader'.out[k].inv) :
                              reader'.out[k].inv[j] # InvTransaction(Txid(tx))]_vars

C12_Witness ==
    /\ main.op = "broadcast_tx" /\ main.pc = "idle" /\ main.res = "Ok"
    /\ reader.pc = "route" /\ reader.msg.kind = "GetData"
    /\ DOMAIN mempool = {Txid(main.tx)}
    /\ \E i, j \in 1..Len(wire) :
          /\ i < j
          /\ wire[i] = Part("main", Msg("Tx", main.tx, <<>>), "body")
          /\ wire[j] = Part("reader", Msg("Tx", main.tx, <<>>), "body")

\* C13 (Disconnect detection): once the peer has closed the socket, the reader
\* worker eventually clears connected and exits.
C13_DisconnectDetected ==
    (sock = "closed") ~> (~connected /\ reader.pc = "exited")

\* C14 (Mempool add-only): no step of any owner of the mempool (add_tx of
\* another owner, broadcast_tx, ask_for_mempool, the reader's auto-serve)
\* removes a txid from it, and every key is the txid of the transaction stored
\* under it.
C14_MempoolAddOnly ==
    /\ [](\A k \in DOMAIN mempool : Txid(mempool[k]) = k)
    /\ [][DOMAIN mempool \subseteq DOMAIN mempool']_vars

C14_Witness ==
    /\ Cardinality(DOMAIN mempool) = 2
    /\ nadds = 1
    /\ main.op = "broadcast_tx" /\ main.pc = "send"

\* C15 (GetData handled transparently): no GetData message is ever pushed
\* into a mailbox; the "getdata" mailbox stays empty or absent.
C15_GetDataNotRouted ==
    /\ Queue(responses, "getdata") = <<>>
    /\ \A k \in DOMAIN responses :
          \A i \in 1..Len(responses[k]) : responses[k][i].kind # "GetData"

\* The last write of this step is a write of the caller's thread of a frame
\* of the given variant.
MainWrites(kind) ==
    /\ Len(wire') > Len(wire)
    /\ wire'[Len(wire')].by = "main"
    /\ wire'[Len(wire')].msg.kind = kind

SentBoth ==
    /\ \E i \in 1..Len(hsLog) : hsLog[i].kind = "Version"
    /\ \E i \in 1..Len(hsLog) : hsLog[i].kind = "Verack"

\* C17 (Handshake waits bounded by socket failure): when the connection is
\* closed or broken and the peer has not sent both its Version and its Verack
\* (and nothing else), the waits of from_stream end: from_stream returns.
C17_HandshakeWaitsEnd ==
    (sock # "open" /\ nsent = 0 /\ ~SentBoth) ~> (main.pc \in {"idle", "failed"})

\* C18 (Request/reply correspondence): a get_cf_checkpt / get_cf_headers call
\* that returns Ok returns the reply the peer sent to that call's request: its
\* variant, filter_type and stop_hash are those of the request.
C18_ReplyMatchesRequest ==
    (main.op \in {"get_cf_checkpt", "get_cf_headers"} /\ main.pc = "idle" /\ main.res = "Ok") =>
        main.val = CfReply(SendMsg(main))

\* C19 (None only from an empty queue): when a timed recv(c, ..) returns
\* None, the queue of c is empty at that moment.
C19_NoneOnlyIfEmpty ==
    [][(main.pc \in RecvPcs /\ main.wait # "no" /\ main'.wait = "no" /\ main'.resp = NoMsg) =>
          Queue(responses', RecvCmd(main)) = <<>>]_vars

\* C20 (Routing key invariant): every message stored in the mailbox keyed k
\* has command name k; so every message a recv(k) returns is of the variant
\* its call site expects, and InvalidResponse is returned only by the
\* filter_type check of get_cf_checkpt / get_cf_headers, never by a
\* wrong-variant branch.
C20_RoutingKey ==
    /\ [](\A k \in DOMAIN responses :
             \A i \in 1..Len(responses[k]) : Cmd(responses[k][i]) = k)
    /\ [][(main.pc \in RecvPcs /\ main'.wait = "no" /\ main'.resp # NoMsg /\ main' # main) =>
             /\ Cmd(main'.resp) = RecvCmd(main)
             /\ main'.resp.kind = Expected(main)]_vars
    /\ [](main.res = "InvalidResponse" =>
             /\ main.op \in {"get_cf_checkpt", "get_cf_headers"}
             /\ main.resp.kind = (IF main.op = "get_cf_checkpt" THEN "CFCheckpt" ELSE "CFHeaders")
             /\ main.resp.n # main.ft)

C20_Witness ==
    /\ main.op = "get_block" /\ main.pc = "idle" /\ main.res = "Ok"
    /\ main.resp.kind = "Block"
    /\ \E k \in DOMAIN responses \ {"block", "version", "verack"} : responses[k] # <<>>

\* The reader's read_next returns, in this step, a frame of another magic.
ReadsForeign ==
    /\ reader.pc = "read"
    /\ inbound # <<>>
    /\ Head(inbound).ok
    /\ Head(inbound).magic # OurMagic
    /\ inbound' = Tail(inbound)

\* C21 (Magic filter): a frame whose magic differs from the network's is
\* discarded with no effect: the reader is back at read_next with no reply to
\* send and nothing to route, nothing is written on the wire, the writer mutex
\* is not taken, no mailbox is created or changed, connected and the mempool
\* are unchanged; the frames the reader has not discarded never carry another
\* magic.
C21_MagicFilter ==
    /\ [][ReadsForeign =>
            /\ reader' = reader
            /\ reader'.pc = "read" /\ reader'.out = <<>>
            /\ wire' = wire
            /\ writer' = writer
            /\ responses' = responses
            /\ connected' = connected
            /\ mempool' = mempool
            /\ pingLog' = pingLog]_vars
    /\ [](reader.pc \in {"reply", "route"} => reader.msg \in RemotePayloads)

C21_Witness ==
    /\ dropped = 2
    /\ connected /\ reader.pc = "read" /\ inbound = <<>>
    /\ main.pc = "idle" /\ sock = "open"
    /\ pingLog = <<>>
    /\ \A i \in 1..Len(wire) : wire[i].by = "main"
    /\ DOMAIN responses = {"version", "verack"}

====
